---- MODULE Spec2Model ----
(***************************************************************************)
(* Score performance metrics engine of the osu! bot (src/utils/rosu.py),   *)
(* with two of its collaborators: the link table (src/utils/database.py)   *)
(* and the beatmap file cache (download_beatmap, src/utils/osu_api.py).    *)
(*                                                                         *)
(* calculate_score_metrics is modelled statement group by statement group. *)
(* Python floats are IEEE-754 binary64 values; they are modelled exactly,  *)
(* as dyadic numbers with a mantissa of at most 53 bits, because the       *)
(* redistribution takes the ceiling of a rounded product.                  *)
(***************************************************************************)
EXTENDS Integers, Sequences, FiniteSets, TLC

VARIABLES
  pc,                     \* where the call is: idle, fc_stats, fc_pp, actual_pp,
                          \* ss_pp, return, done (returned) or raised
  args,                   \* the arguments of the call
  mods_string, map_max_combo, total_objects_for_mode,
  n300, n100, n50, misses, unseen_objects,
  fc,                     \* what _calculate_fc_stats returned
  pp_fc, actual_pp, pp_ss,
  result,                 \* the ScoreMetrics returned to the caller
  raised,                 \* the exception that reached the caller
  probe,                  \* the reference call of a session that repeats calls
  probe_hits,             \* how often the reference call has returned
  probe_result,           \* what the reference call returned the first time
  user_links,             \* the committed rows of table user_links
  db_writer,              \* the connection holding the write transaction
  link_pc, link_call,     \* per caller of database.py: position and arguments
  link_out,               \* per caller: what the call returned or raised
  last_commit,            \* per discord_id: the link of the last commit
  link_expected,          \* per caller: last_commit as get_link's SELECT ran
  cache,                  \* BEATMAP_CACHE_DIR: per beatmap ID the file content
  dl_pc, dl_call,         \* per caller of download_beatmap: position, call
  dl_out,                 \* per caller: what the call returned or raised
  fetches,                \* per beatmap ID: the HTTP requests issued
  downloaded,             \* per beatmap ID: a download has returned its path
  oauth_states,           \* the OAuth states issued and not yet consumed
  issued,                 \* every OAuth state ever issued
  cb_pc, cb,              \* per handler of /osu/callback: position, request
                          \* and what the request has met so far
  set_link_calls          \* per OAuth state: the calls of set_link made for it

(***************************************************************************)
(* Optional values: Python's None is the empty set, a present value v is   *)
(* the singleton {v}.                                                      *)
(***************************************************************************)
None == {}

Some(v) == {v}

Get(o) == CHOOSE v \in o : TRUE

\* Python `x or 0` followed by int(): None and 0 both give 0.
IntOr0(o) == IF o = None THEN 0 ELSE Get(o)

(***************************************************************************)
(* Binary64 arithmetic.                                                    *)
(*                                                                         *)
(* A number is [neg, mag, exp]: mag is the mantissa, a natural number      *)
(* written as a sequence of limbs of LimbBits bits, least significant      *)
(* first, and the value is (+/-) mag * 2^exp.  The form is canonical: mag  *)
(* is empty for zero, and otherwise it is odd and its last limb is not 0,  *)
(* so two records are equal exactly when their values are.  The exponent   *)
(* range of binary64 is never approached by the engine's quotients of hit  *)
(* counts, so exponents are unbounded here.  Every int that is divided or  *)
(* multiplied is below 2^17 in absolute value.                             *)
(***************************************************************************)
MantissaBits == 53

LimbBits == 14

\* 2^LimbBits
Base == 16384

\* limbs after the binary point that a quotient is developed to
FractionLimbs == 6

Abs(i) == IF i < 0 THEN 0 - i ELSE i

RECURSIVE Pow2(_)
Pow2(n) == IF n <= 0 THEN 1 ELSE 2 * Pow2(n - 1)

Zeros(n) == [i \in 1 .. n |-> 0]

\* limbs of a natural number below 2^31
NatLimbs(n) ==
  IF n = 0 THEN <<>>
  ELSE IF n < Base THEN <<n>>
  ELSE IF n < Base * Base THEN <<n % Base, n \div Base>>
  ELSE <<n % Base, (n \div Base) % Base, n \div (Base * Base)>>

\* the natural number of at most three limbs
LimbsNat(m) ==
  (IF Len(m) >= 1 THEN m[1] ELSE 0)
  + (IF Len(m) >= 2 THEN m[2] * Base ELSE 0)
  + (IF Len(m) >= 3 THEN m[3] * Base * Base ELSE 0)

\* drop the zero limbs at the most significant end
RECURSIVE StripHigh(_)
StripHigh(m) ==
  IF m = <<>> THEN <<>>
  ELSE IF m[Len(m)] # 0 THEN m
  ELSE StripHigh(SubSeq(m, 1, Len(m) - 1))

\* number of bits of a limb 0 < d < Base
LimbLen(d) == CHOOSE n \in 1 .. LimbBits : Pow2(n - 1) <= d /\ d < Pow2(n)

\* number of bits of a magnitude without high zero limbs
MagLen(m) == IF m = <<>> THEN 0 ELSE LimbBits * (Len(m) - 1) + LimbLen(m[Len(m)])

\* number of zero bits below the lowest one bit of a magnitude that is not 0
LowZeros(m) ==
  LET j == CHOOSE k \in 1 .. Len(m) : m[k] # 0 /\ \A l \in 1 .. k - 1 : m[l] = 0
      z == CHOOSE n \in 0 .. LimbBits - 1 : (m[j] \div Pow2(n)) % 2 = 1 /\ m[j] % Pow2(n) = 0
  IN  LimbBits * (j - 1) + z

RECURSIVE AddMag(_, _, _)
AddMag(x, y, carry) ==
  IF x = <<>> /\ y = <<>> THEN (IF carry = 0 THEN <<>> ELSE <<carry>>)
  ELSE LET a == IF x = <<>> THEN 0 ELSE Head(x)
           b == IF y = <<>> THEN 0 ELSE Head(y)
           s == a + b + carry
       IN  <<s % Base>> \o AddMag(IF x = <<>> THEN <<>> ELSE Tail(x),
                                  IF y = <<>> THEN <<>> ELSE Tail(y), s \div Base)

\* x - y for magnitudes with x >= y
RECURSIVE SubMag(_, _, _)
SubMag(x, y, borrow) ==
  IF x = <<>> THEN <<>>
  ELSE LET b == IF y = <<>> THEN 0 ELSE Head(y)
           d == Head(x) - b - borrow
       IN  <<d % Base>> \o SubMag(Tail(x), IF y = <<>> THEN <<>> ELSE Tail(y),
                                  IF d < 0 THEN 1 ELSE 0)

\* x < y for magnitudes without high zero limbs
RECURSIVE LessMag(_, _)
LessMag(x, y) ==
  IF Len(x) # Len(y) THEN Len(x) < Len(y)
  ELSE IF x = <<>> THEN FALSE
  ELSE IF x[Len(x)] # y[Len(y)] THEN x[Len(x)] < y[Len(y)]
  ELSE LessMag(StripHigh(SubSeq(x, 1, Len(x) - 1)), StripHigh(SubSeq(y, 1, Len(y) - 1)))

\* magnitude times a natural number below 2^17
RECURSIVE MulMag(_, _, _)
MulMag(x, k, carry) ==
  IF x = <<>> THEN NatLimbs(carry)
  ELSE LET d == Head(x) * k + carry
       IN  <<d % Base>> \o MulMag(Tail(x), k, d \div Base)

\* m * 2^n
ShiftLeft(m, n) ==
  IF m = <<>> THEN <<>>
  ELSE Zeros(n \div LimbBits) \o MulMag(m, Pow2(n % LimbBits), 0)

\* floor(m / 2^n)
ShiftRight(m, n) ==
  LET q == n \div LimbBits
      r == n % LimbBits
      h == IF q >= Len(m) THEN <<>> ELSE SubSeq(m, q + 1, Len(m))
  IN  StripHigh([i \in 1 .. Len(h) |->
                   (h[i] \div Pow2(r))
                   + (IF i < Len(h) THEN (h[i + 1] % Pow2(r)) * Pow2(LimbBits - r) ELSE 0)])

\* bit i of m, counted from 1 at the least significant end
BitAt(m, i) ==
  LET j == (i - 1) \div LimbBits + 1
  IN  IF j > Len(m) THEN 0 ELSE (m[j] \div Pow2((i - 1) % LimbBits)) % 2

\* one of the n lowest bits of m is 1
LowBitsSet(m, n) ==
  LET q == n \div LimbBits
      r == n % LimbBits
  IN  \/ \E j \in 1 .. Len(m) : j <= q /\ m[j] # 0
      \/ q + 1 <= Len(m) /\ m[q + 1] % Pow2(r) # 0

FloatZero == [neg |-> FALSE, mag |-> <<>>, exp |-> 0]

\* the canonical record of (+/-) m * 2^e
Canon(neg, m, e) ==
  LET h == StripHigh(m)
  IN  IF h = <<>> THEN FloatZero
      ELSE [neg |-> neg, mag |-> ShiftRight(h, LowZeros(h)), exp |-> e + LowZeros(h)]

\* round an exact value to the nearest binary64 value, ties to even
RoundNearestEven(x) ==
  LET d == MagLen(x.mag) - MantissaBits
  IN  IF d <= 0 THEN x
      ELSE LET kept   == ShiftRight(x.mag, d)
               half   == BitAt(x.mag, d) = 1
               sticky == LowBitsSet(x.mag, d - 1)
               up     == half /\ (sticky \/ kept[1] % 2 = 1)
           IN  Canon(x.neg, IF up THEN AddMag(kept, <<1>>, 0) ELSE kept, x.exp + d)

\* the exact sum of two values
ExactAdd(x, y) ==
  LET e  == IF x.exp < y.exp THEN x.exp ELSE y.exp
      mx == ShiftLeft(x.mag, x.exp - e)
      my == ShiftLeft(y.mag, y.exp - e)
  IN  IF x.neg = y.neg THEN Canon(x.neg, AddMag(mx, my, 0), e)
      ELSE IF LessMag(StripHigh(mx), StripHigh(my)) THEN Canon(y.neg, SubMag(my, mx, 0), e)
      ELSE Canon(x.neg, SubMag(mx, my, 0), e)

FloatNeg(x) == IF x.mag = <<>> THEN x ELSE [x EXCEPT !.neg = ~x.neg]

\* float(i) for an int below 2^31
FloatOfInt(i) == Canon(i < 0, NatLimbs(Abs(i)), 0)

\* x - y
FloatSub(x, y) == RoundNearestEven(ExactAdd(x, FloatNeg(y)))

\* x >= y
FloatGe(x, y) == ~ExactAdd(x, FloatNeg(y)).neg

\* x * k, with the int k converted to float first (exact below 2^53)
FloatMulInt(x, k) ==
  RoundNearestEven(Canon(x.neg # (k < 0), MulMag(x.mag, Abs(k), 0), x.exp))

(***************************************************************************)
(* The next n limbs of the quotient rem / b after the binary point, most   *)
(* significant first, prepended to acc; a remainder that is still not zero *)
(* after them is recorded as one more limb of value 1, which rounds like   *)
(* the infinite expansion since the limbs before it hold more than         *)
(* MantissaBits + 1 significant bits.                                      *)
(***************************************************************************)
RECURSIVE DivDigits(_, _, _, _)
DivDigits(rem, b, acc, n) ==
  IF n = 0
  THEN IF rem = 0 THEN [mag |-> acc, exp |-> 0 - LimbBits * FractionLimbs]
       ELSE [mag |-> <<1>> \o acc, exp |-> 0 - LimbBits * (FractionLimbs + 1)]
  ELSE DivDigits((rem * Base) % b, b, <<(rem * Base) \div b>> \o acc, n - 1)

\* int / int for a non-zero divisor (Python's true division is correctly rounded)
FloatDiv(a, b) ==
  LET q == DivDigits(Abs(a) % Abs(b), Abs(b), NatLimbs(Abs(a) \div Abs(b)), FractionLimbs)
  IN  RoundNearestEven(Canon((a < 0) # (b < 0), q.mag, q.exp))

\* max(0.0, x)
FloatMax0(x) == IF x.neg \/ x.mag = <<>> THEN FloatZero ELSE x

\* int(math.ceil(x))
FloatCeil(x) ==
  IF x.mag = <<>> THEN 0
  ELSE IF x.exp >= 0 THEN (IF x.neg THEN 0 - 1 ELSE 1) * LimbsNat(x.mag) * Pow2(x.exp)
  ELSE LET whole == LimbsNat(ShiftRight(x.mag, 0 - x.exp))
       IN  IF x.neg THEN 0 - whole ELSE whole + 1

(***************************************************************************)
(* Bounds of the explored inputs.                                          *)
(***************************************************************************)
\* largest judgement count of the enumerated hit statistics
MaxCount == 3

\* largest circle count of the enumerated beatmaps
MaxCircles == 3

\* largest slider count of the enumerated beatmaps
MaxSliders == 1

\* how many completions of the reference call are counted
MaxRepeats == 2

(***************************************************************************)
(* utils/helpers.py                                                        *)
(***************************************************************************)
\* str.upper() on the acronyms that occur in the model
Upper(s) ==
  CASE s = "hd" -> "HD"
    [] s = "dt" -> "DT"
    [] OTHER -> s

(***************************************************************************)
(* A mod entry is [is_dict, acronym, is_str]: a dict or an object, whose   *)
(* "acronym" key or attribute is missing (None) or holds a value that is   *)
(* a str or not (text is then its str() form).                             *)
(* Result: [raised, acronyms] of the loop over entries i..Len(mods).       *)
(***************************************************************************)
RECURSIVE ModAcronyms(_, _)
ModAcronyms(mods, i) ==
  IF i > Len(mods) THEN [raised |-> FALSE, text |-> ""]
  ELSE LET mod  == mods[i]
           rest == ModAcronyms(mods, i + 1)
       IN  IF mod.is_dict /\ mod.acronym # None
           THEN IF ~mod.is_str THEN [raised |-> TRUE, text |-> ""]
                ELSE [rest EXCEPT !.text = Upper(Get(mod.acronym)) \o @]
           ELSE IF mod.is_dict \/ mod.acronym = None \/ Get(mod.acronym) = ""
           THEN rest
           ELSE [rest EXCEPT !.text = Upper(Get(mod.acronym)) \o @]

api_mods_to_string(mods) ==
  LET r == ModAcronyms(IF mods = None THEN <<>> ELSE Get(mods), 1)
  IN  IF r.raised THEN "" ELSE r.text

(***************************************************************************)
(* The external calculator (rosu_pp_py), seen through its interface.       *)
(*                                                                         *)
(* A beatmap file is identified with what the calculator reads from it.    *)
(* A Performance object is the record of its settings, each unset (None)   *)
(* until its setter is called.  The PP value of an evaluation is an        *)
(* uninterpreted function of the settings and the beatmap: two values are  *)
(* equal exactly when the evaluations were configured alike.               *)
(***************************************************************************)
\* rosu.Beatmap(path=beatmap_path)
Beatmap(beatmap_path) == beatmap_path

\* variant: an unreadable file is taken for an empty beatmap
BeatmapParsesAlways(beatmap_path) == TRUE

\* rosu.Beatmap(path=beatmap_path) returns, instead of raising its parse error
BeatmapParses(beatmap_path) == beatmap_path.parses

\* the mod strings for which the calculator raises
InvalidModStrings == {"EZHR"}

\* rosu.Difficulty(mods=mods_string, lazer=lazer) returns, instead of raising
AcceptsMods(mods) == mods \notin InvalidModStrings

\* rosu.Difficulty(mods=mods_string, lazer=lazer).calculate(beatmap)
DifficultyCalculate(beatmap, mods, lazer_flag) == beatmap.attributes

\* variant: one object kept by the module, still configured by earlier calls
PerformanceKeptAcrossCalls(lazer_flag) ==
  [lazer |-> lazer_flag, mods |-> None, n300 |-> None, n100 |-> None,
   n50 |-> None, misses |-> None, slider_end_hits |-> None,
   small_tick_hits |-> None, accuracy |-> None,
   combo |-> IF probe_hits > 0 THEN Some(0) ELSE None]

\* variant: one object per call, handed from evaluation to evaluation
PerformanceSharedByEvaluations(lazer_flag) ==
  IF pc = "actual_pp" /\ pp_fc # None THEN Get(pp_fc).performance
  ELSE IF pc = "ss_pp" /\ actual_pp # None THEN Get(actual_pp).performance
  ELSE [lazer |-> lazer_flag, mods |-> None, n300 |-> None, n100 |-> None,
        n50 |-> None, misses |-> None, slider_end_hits |-> None,
        small_tick_hits |-> None, accuracy |-> None, combo |-> None]

\* rosu.Performance(lazer=lazer)
Performance(lazer_flag) ==
  [lazer |-> lazer_flag, mods |-> None, n300 |-> None, n100 |-> None,
   n50 |-> None, misses |-> None, slider_end_hits |-> None,
   small_tick_hits |-> None, accuracy |-> None, combo |-> None]

\* performance.calculate(beatmap).pp; the calculator has no value for the
\* configurations listed with the beatmap
PerformanceCalculate(performance, beatmap) ==
  IF performance \in beatmap.no_pp_for THEN None
  ELSE Some([performance |-> performance, beatmap |-> beatmap])

\* float(pp): [raised, pp]; float(None) raises TypeError
FloatOfPp(pp) ==
  [raised |-> IF pp = None THEN Some("TypeError") ELSE None, pp |-> pp]

\* hasattr(performance, "set_slider_end_hits")
HasSliderEndHits == TRUE

\* hasattr(performance, "set_small_tick_hits")
HasSmallTickHits == TRUE

(***************************************************************************)
(* _calculate_fc_stats                                                     *)
(***************************************************************************)
Float100 == FloatOfInt(100)

\* variant: the unseen objects are left out of the seed
SeedN300FcWithoutUnseen(n300v, unseen) == n300v

\* n300_fc = n300 + unseen_objects
SeedN300Fc(n300v, unseen) == n300v + unseen

\* counted_hits = total_objects_for_mode - misses
CountedHits(total, missesv) == total - missesv

\* variant: strict comparison of counted_hits
TreatAsSSStrict(counted_hits, total) == counted_hits < 0 \/ total <= 0

\* if counted_hits <= 0 or total_objects_for_mode <= 0
TreatAsSS(counted_hits, total) == counted_hits <= 0 \/ total <= 0

\* redistribution_ratio = 1.0 - (n300_fc / counted_hits)
RedistributionRatio(n300_fc, counted_hits) ==
  FloatSub(FloatOfInt(1), FloatDiv(n300_fc, counted_hits))

\* variant: floor + 1 in place of the ceiling
New100sFloorPlusOne(redistribution_ratio, missesv) ==
  LET x == FloatMulInt(FloatMax0(redistribution_ratio), missesv)
  IN  IF x.exp >= 0 THEN FloatCeil(x) + 1 ELSE FloatCeil(x)

\* variant: truncation in place of the ceiling
New100sTruncated(redistribution_ratio, missesv) ==
  LET x == FloatMulInt(FloatMax0(redistribution_ratio), missesv)
  IN  IF x.exp >= 0 \/ x.neg THEN FloatCeil(x) ELSE FloatCeil(x) - 1

\* new_100s = int(math.ceil(max(0.0, redistribution_ratio) * misses))
New100s(redistribution_ratio, missesv) ==
  FloatCeil(FloatMulInt(FloatMax0(redistribution_ratio), missesv))

\* variant: every miss is turned into a 300, the new 100s included
RemainingTo300EveryMiss(missesv, new_100s) == missesv

\* n300_fc += max(0, misses - new_100s)
RemainingTo300(missesv, new_100s) ==
  IF missesv - new_100s > 0 THEN missesv - new_100s ELSE 0

\* accuracy_fc = (300*n300_fc + 100*n100_fc + 50*n50_fc) / (300*total) * 100.0
AccuracyFc(n300_fc, n100_fc, n50_fc, total) ==
  FloatMulInt(FloatDiv(300 * n300_fc + 100 * n100_fc + 50 * n50_fc, 300 * total), 100)

(***************************************************************************)
(* The returned tuple, with the branch taken, the locals of the else       *)
(* branch and the exception of a division by zero, if one is reached.      *)
(***************************************************************************)
calculate_fc_stats(n300v, n100v, n50v, missesv, total, unseen) ==
  LET seed         == SeedN300Fc(n300v, unseen)
      counted_hits == CountedHits(total, missesv)
  IN  IF TreatAsSS(counted_hits, total)
      THEN [branch |-> "ss", raised |-> None, counted_hits |-> counted_hits,
            new_100s |-> None, n300_fc |-> seed, n100_fc |-> n100v,
            n50_fc |-> n50v, misses_fc |-> 0, accuracy_fc |-> Float100]
      ELSE IF counted_hits = 0 \/ 300 * total = 0
      THEN [branch |-> "redistribute", raised |-> Some("ZeroDivisionError"),
            counted_hits |-> counted_hits, new_100s |-> None, n300_fc |-> seed,
            n100_fc |-> n100v, n50_fc |-> n50v, misses_fc |-> 0,
            accuracy_fc |-> FloatZero]
      ELSE LET new_100s == New100s(RedistributionRatio(seed, counted_hits), missesv)
               n300_fc  == seed + RemainingTo300(missesv, new_100s)
               n100_fc  == n100v + new_100s
           IN  [branch |-> "redistribute", raised |-> None,
                counted_hits |-> counted_hits, new_100s |-> Some(new_100s),
                n300_fc |-> n300_fc, n100_fc |-> n100_fc, n50_fc |-> n50v,
                misses_fc |-> 0,
                accuracy_fc |-> AccuracyFc(n300_fc, n100_fc, n50v, total)]

(***************************************************************************)
(* _calculate_fc_pp: [raised, pp].  int(map_max_combo) raises TypeError    *)
(* when map_max_combo is None, float(pp) when the calculator has no value. *)
(***************************************************************************)
\* performance_fc before the branch on lazer: lines 115-116
performance_fc_base(mods, lazer_flag) ==
  [Performance(lazer_flag) EXCEPT !.mods = Some(mods)]

\* lines 131-132
set_small_tick_hits_fc(performance, n_small_ticks) ==
  IF n_small_ticks > 0 /\ HasSmallTickHits
  THEN [performance EXCEPT !.small_tick_hits = Some(n_small_ticks)]
  ELSE performance

\* performance_fc of the lazer branch: lines 119-132
performance_fc_lazer(mods, fcs, n_sliders, n_small_ticks) ==
  LET p0 == performance_fc_base(mods, TRUE)
      p1 == [p0 EXCEPT !.n300 = Some(fcs.n300_fc), !.n100 = Some(fcs.n100_fc),
                       !.n50 = Some(fcs.n50_fc), !.misses = Some(fcs.misses_fc)]
      p2 == IF HasSliderEndHits THEN [p1 EXCEPT !.slider_end_hits = Some(n_sliders)]
            ELSE p1
  IN  set_small_tick_hits_fc(p2, n_small_ticks)

\* performance_fc of the fallback branch, map_max_combo present: lines 136-138
performance_fc_stable(mods, fcs, max_combo) ==
  [performance_fc_base(mods, FALSE) EXCEPT !.accuracy = Some(fcs.accuracy_fc),
                                           !.misses = Some(0),
                                           !.combo = Some(Get(max_combo))]

calculate_fc_pp(beatmap, mods, lazer_flag, fcs, max_combo, n_sliders, n_small_ticks) ==
  IF lazer_flag
  THEN FloatOfPp(PerformanceCalculate(
                   performance_fc_lazer(mods, fcs, n_sliders, n_small_ticks), beatmap))
  ELSE IF max_combo = None THEN [raised |-> Some("TypeError"), pp |-> None]
  ELSE FloatOfPp(PerformanceCalculate(
                   performance_fc_stable(mods, fcs, max_combo), beatmap))

\* performance_actual: lines 177-202
performance_actual(mods, lazer_flag, n300v, n100v, n50v, missesv, slider_end_hits, small_tick_hits, score_max_combo, score_accuracy) ==
  LET p0 == [Performance(lazer_flag) EXCEPT !.mods = Some(mods)]
      p1 == [p0 EXCEPT !.n300 = Some(n300v), !.n100 = Some(n100v),
                       !.n50 = Some(n50v), !.misses = Some(missesv)]
      p2 == IF HasSliderEndHits THEN [p1 EXCEPT !.slider_end_hits = Some(slider_end_hits)]
            ELSE p1
      p3 == IF HasSmallTickHits THEN [p2 EXCEPT !.small_tick_hits = Some(small_tick_hits)]
            ELSE p2
      s0 == [p0 EXCEPT !.accuracy = Some(FloatMulInt(score_accuracy, 100)),
                       !.misses = Some(missesv)]
      p  == IF lazer_flag THEN p3 ELSE s0
  IN  IF score_max_combo # None THEN [p EXCEPT !.combo = score_max_combo] ELSE p

\* _calculate_actual_pp: the pp is returned as the calculator gave it
calculate_actual_pp(beatmap, mods, lazer_flag, n300v, n100v, n50v, missesv, slider_end_hits, small_tick_hits, score_max_combo, score_accuracy) ==
  PerformanceCalculate(
    performance_actual(mods, lazer_flag, n300v, n100v, n50v, missesv,
                       slider_end_hits, small_tick_hits, score_max_combo,
                       score_accuracy),
    beatmap)

\* performance_ss: lines 225-228
performance_ss(mods, lazer_flag) ==
  [Performance(lazer_flag) EXCEPT !.accuracy = Some(Float100),
                                  !.misses = Some(0),
                                  !.mods = Some(mods)]

\* variant: the misses of the play are passed on
calculate_ss_pp_with_misses(beatmap, mods, lazer_flag) ==
  FloatOfPp(PerformanceCalculate(
              [performance_ss(mods, lazer_flag) EXCEPT !.misses = Some(misses)],
              beatmap))

\* _calculate_ss_pp: [raised, pp]
calculate_ss_pp(beatmap, mods, lazer_flag) ==
  FloatOfPp(PerformanceCalculate(performance_ss(mods, lazer_flag), beatmap))

(***************************************************************************)
(* Inputs of calculate_score_metrics.                                      *)
(***************************************************************************)
\* a beatmap file as the calculator sees it: whether it parses, the
\* attributes reported for it, and the evaluations that yield no pp
BeatmapFile(circles, sliders, small_ticks, max_combo) ==
  [parses |-> TRUE, no_pp_for |-> {},
   attributes |-> [stars |-> Some(5), max_combo |-> max_combo,
                   n_circles |-> circles, n_sliders |-> sliders,
                   n_large_ticks |-> sliders, n_small_ticks |-> small_ticks]]

\* a file the calculator cannot parse
CorruptBeatmapFile ==
  [BeatmapFile(Some(2), Some(1), Some(1), Some(4)) EXCEPT !.parses = FALSE]

\* score.statistics
Statistics(great, ok, meh, miss, slider_tail_hit, small_tick_hit) ==
  [great |-> great, ok |-> ok, meh |-> meh, miss |-> miss,
   slider_tail_hit |-> slider_tail_hit, small_tick_hit |-> small_tick_hit]

\* score.beatmap, the beatmap information of the API
ApiBeatmapInfo ==
  [cs |-> Some(4), ar |-> Some(9), accuracy |-> Some(8), drain |-> None,
   bpm |-> Some(180), total_length |-> Some(90)]

Score(mods, statistics, max_combo, accuracy) ==
  [mods |-> mods, statistics |-> statistics, max_combo |-> max_combo,
   accuracy |-> accuracy, beatmap |-> ApiBeatmapInfo]

Arguments(beatmap_path, score, lazer_flag) ==
  [beatmap_path |-> beatmap_path, score |-> score, lazer |-> lazer_flag]

NoMods == Some(<<>>)

\* score.accuracy values, fractions of 1
NineTenths == FloatDiv(9, 10)

SevenEighths == FloatDiv(7, 8)

ThreeQuarters == FloatDiv(3, 4)

OneThird == FloatDiv(1, 3)

One == FloatOfInt(1)

HiddenDoubleTime ==
  Some(<< [is_dict |-> TRUE, acronym |-> Some("hd"), is_str |-> TRUE],
          [is_dict |-> FALSE, acronym |-> Some("DT"), is_str |-> TRUE] >>)

Counts == (0 - 1) .. MaxCount

\* every combination of small judgement counts, a negative one included
GridInputs ==
  { Arguments(BeatmapFile(Some(c), Some(s), Some(s), Some(c + 2 * s)),
              Score(NoMods,
                    Statistics(Some(st[1]), Some(st[2]), Some(st[3]), Some(st[4]),
                               Some(0), Some(0)),
                    Some(1), NineTenths),
              l) :
      c \in 0 .. MaxCircles, s \in 0 .. MaxSliders,
      st \in Counts \X Counts \X Counts \X Counts, l \in BOOLEAN }

\* the plays of the scenarios: <<circles, sliders, great, ok, meh, miss>>
ScenarioPlays ==
  { <<60, 40, 80, 10, 5, 5>>, <<60, 40, 85, 10, 5, 0>>, <<30, 20, 0, 0, 0, 0>>,
    <<8, 4, 2, 1, 0, 9>>, <<10, 4, 6, 1, 0, 7>>, <<1, 0, 0, 2, 0, 0 - 1>> }

ScenarioInputs ==
  { Arguments(BeatmapFile(Some(p[1]), Some(p[2]), Some(p[2]), Some(p[1] + 2 * p[2])),
              Score(HiddenDoubleTime,
                    Statistics(Some(p[3]), Some(p[4]), Some(p[5]), Some(p[6]),
                               Some(p[2]), None),
                    Some(p[3]), SevenEighths),
              l) :
      p \in ScenarioPlays, l \in BOOLEAN }

\* beatmaps whose attributes lack a count or the max combo, and a spinner-only one
EdgeBeatmaps ==
  { BeatmapFile(Some(2), Some(1), Some(0), None),
    BeatmapFile(None, None, None, None),
    BeatmapFile(Some(0), None, None, Some(0)),
    BeatmapFile(Some(0), Some(0), Some(0), Some(2)) }

EdgeStatistics ==
  { Statistics(None, None, None, None, None, None),
    Statistics(Some(2), Some(1), None, Some(0), Some(1), Some(0)),
    Statistics(Some(1), Some(0), Some(1), Some(1), None, Some(2)) }

EdgeInputs ==
  { Arguments(b, Score(m, st, c, One), l) :
      b \in EdgeBeatmaps, m \in {None, HiddenDoubleTime}, st \in EdgeStatistics,
      c \in {None, Some(3)}, l \in BOOLEAN }

\* mod lists: a mod the calculator rejects together with another, an entry
\* without acronym, and dict entries whose acronym is not a str
EasyHardRock ==
  Some(<< [is_dict |-> TRUE, acronym |-> Some("EZ"), is_str |-> TRUE],
          [is_dict |-> TRUE, acronym |-> Some("HR"), is_str |-> TRUE] >>)

HiddenAndUnnamed ==
  Some(<< [is_dict |-> FALSE, acronym |-> Some("HD"), is_str |-> TRUE],
          [is_dict |-> FALSE, acronym |-> None, is_str |-> FALSE] >>)

HiddenAndNumber ==
  Some(<< [is_dict |-> TRUE, acronym |-> Some("HD"), is_str |-> TRUE],
          [is_dict |-> TRUE, acronym |-> Some("7"), is_str |-> FALSE] >>)

NumberObjectAndHidden ==
  Some(<< [is_dict |-> FALSE, acronym |-> Some("7"), is_str |-> FALSE],
          [is_dict |-> TRUE, acronym |-> Some("hd"), is_str |-> TRUE] >>)

ModLists ==
  { None, NoMods, HiddenDoubleTime, EasyHardRock, HiddenAndUnnamed,
    HiddenAndNumber, NumberObjectAndHidden }

PlainStatistics == Statistics(Some(2), Some(1), Some(0), Some(1), Some(1), Some(0))

\* calls with every mod list, on a file that parses and on one that does not
ModInputs ==
  { Arguments(b, Score(m, PlainStatistics, Some(3), NineTenths), l) :
      b \in { BeatmapFile(Some(3), Some(1), Some(1), Some(5)), CorruptBeatmapFile },
      m \in ModLists, l \in BOOLEAN }

\* score.beatmap with every field absent, and with every field present
ApiBeatmapInfos ==
  { [cs |-> None, ar |-> None, accuracy |-> None, drain |-> None,
     bpm |-> None, total_length |-> None],
    [cs |-> Some(0), ar |-> Some(10), accuracy |-> Some(7), drain |-> Some(5),
     bpm |-> Some(200), total_length |-> Some(0)] }

MetadataInputs ==
  { Arguments(BeatmapFile(Some(2), Some(1), Some(0), c),
              [Score(NoMods, PlainStatistics, Some(3), NineTenths)
                 EXCEPT !.beatmap = info],
              l) :
      c \in {None, Some(0), Some(4)}, info \in ApiBeatmapInfos, l \in BOOLEAN }

\* beatmaps for which the calculator has no pp for one of the three
\* evaluations of the call, or for all of them
NoPpBeatmaps(lazer_flag) ==
  LET b   == BeatmapFile(Some(3), Some(1), Some(1), Some(5))
      fcs == calculate_fc_stats(2, 1, 0, 1, 4, 0)
      a   == performance_actual("", lazer_flag, 2, 1, 0, 1, 1, 0, Some(3), NineTenths)
      f   == IF lazer_flag THEN performance_fc_lazer("", fcs, 1, 1)
             ELSE performance_fc_stable("", fcs, Some(5))
      x   == performance_ss("", lazer_flag)
  IN  { [b EXCEPT !.no_pp_for = w] : w \in { {a}, {f}, {x}, {a, f, x} } }

NoPpInputs ==
  { Arguments(b, Score(NoMods, PlainStatistics, Some(3), NineTenths), l) :
      l \in BOOLEAN, b \in NoPpBeatmaps(TRUE) \cup NoPpBeatmaps(FALSE) }

Inputs ==
  GridInputs \cup ScenarioInputs \cup EdgeInputs \cup ModInputs
    \cup MetadataInputs \cup NoPpInputs

\* the calls of a session that repeats calls
PairScores ==
  { Score(m, st[1], st[2], st[3]) :
      m \in {NoMods, HiddenDoubleTime},
      st \in { <<Statistics(Some(3), Some(1), Some(0), Some(0), Some(1), Some(1)),
                 Some(5), One>>,
               <<Statistics(Some(1), Some(1), Some(1), Some(1), Some(0), None),
                 Some(2), ThreeQuarters>>,
               <<Statistics(Some(0), Some(2), Some(0), Some(1), None, None),
                 None, OneThird>> } }

PairInputs ==
  { Arguments(b, sc, l) :
      b \in { BeatmapFile(Some(3), Some(1), Some(1), Some(5)),
              BeatmapFile(Some(1), Some(2), Some(0), Some(6)) },
      sc \in PairScores, l \in BOOLEAN }

(***************************************************************************)
(* calculate_score_metrics                                                 *)
(***************************************************************************)
\* map_max_combo = int(getattr(difficulty_attributes, "max_combo", 0)) or None
MapMaxCombo(attributes) ==
  IF IntOr0(attributes.max_combo) = 0 THEN None ELSE attributes.max_combo

\* total_objects_for_mode = n_circles + n_sliders
TotalObjectsForMode(attributes) ==
  IntOr0(attributes.n_circles) + IntOr0(attributes.n_sliders)

\* passed_objects_count = n300 + n100 + n50 + misses
PassedObjectsCount(n300v, n100v, n50v, missesv) == n300v + n100v + n50v + missesv

\* variant: one object too few
UnseenObjectsOffByOne(total, passed) == IF total - passed > 1 THEN total - passed - 1 ELSE 0

\* unseen_objects = max(0, total_objects_for_mode - passed_objects_count)
UnseenObjects(total, passed) == IF total - passed > 0 THEN total - passed ELSE 0

\* float(x) if x is not None else None
FloatOrNone(x) == IF x = None THEN None ELSE Some(FloatOfInt(Get(x)))

\* int(x) if x is not None else None, x an int of the API
IntOrNone(x) == IF x = None THEN None ELSE Some(Get(x))

\* the ScoreMetrics returned
ScoreMetrics(pp, ppfc, accuracy_fc, ppss, attributes, info, max_combo) ==
  [pp |-> pp, pp_if_fc |-> ppfc, accuracy_if_fc |-> accuracy_fc,
   pp_if_ss |-> ppss,
   stars_with_mods |-> IF attributes.stars = None THEN 0 ELSE Get(attributes.stars),
   map_cs |-> FloatOrNone(info.cs), map_ar |-> FloatOrNone(info.ar),
   map_od |-> FloatOrNone(info.accuracy), map_hp |-> FloatOrNone(info.drain),
   map_bpm |-> FloatOrNone(info.bpm),
   map_length_sec |-> IntOrNone(info.total_length), map_max_combo |-> max_combo]

locals == <<mods_string, map_max_combo, total_objects_for_mode,
            n300, n100, n50, misses, unseen_objects>>

history == <<probe, probe_hits, probe_result>>

engine == <<pc, args, locals, fc, pp_fc, actual_pp, pp_ss, result, raised, history>>

link == <<user_links, db_writer, link_pc, link_call, link_out, last_commit,
          link_expected>>

beatmap_cache == <<cache, dl_pc, dl_call, dl_out, fetches, downloaded>>

oauth == <<oauth_states, issued, cb_pc, cb, set_link_calls>>

\* what calculate_score_metrics does not touch
others == <<link, beatmap_cache, oauth>>

vars == <<engine, link, beatmap_cache, oauth>>

Args == Get(args)

Fc == Get(fc)

DifficultyAttributes ==
  DifficultyCalculate(Beatmap(Args.beatmap_path), mods_string, Args.lazer)

EngineInit ==
  /\ pc = "idle"
  /\ args = None
  /\ mods_string = ""
  /\ map_max_combo = None
  /\ total_objects_for_mode = 0
  /\ n300 = 0 /\ n100 = 0 /\ n50 = 0 /\ misses = 0
  /\ unseen_objects = 0
  /\ fc = None /\ pp_fc = None /\ actual_pp = None /\ pp_ss = None
  /\ result = None /\ raised = None
  /\ probe \in {None} \cup {Some(a) : a \in PairInputs}
  /\ probe_hits = 0
  /\ probe_result = None

(***************************************************************************)
(* The caller invokes the function: lines 251-286.  A session without a    *)
(* reference call makes one call with any input; a session with one keeps  *)
(* calling with the inputs of PairInputs.                                  *)
(***************************************************************************)
Call ==
  /\ pc = "idle" \/ (probe # None /\ pc \in {"done", "raised"})
  /\ \E a \in IF probe = None THEN Inputs ELSE PairInputs :
       LET mods       == api_mods_to_string(a.score.mods)
           attributes == DifficultyCalculate(Beatmap(a.beatmap_path), mods, a.lazer)
           total  == TotalObjectsForMode(attributes)
           great  == IntOr0(a.score.statistics.great)
           ok     == IntOr0(a.score.statistics.ok)
           meh    == IntOr0(a.score.statistics.meh)
           miss   == IntOr0(a.score.statistics.miss)
       IN  /\ args' = Some(a)
           /\ mods_string' = mods
           /\ IF ~BeatmapParses(a.beatmap_path) \/ ~AcceptsMods(mods)
              THEN \* line 256 or lines 259-260 raise; nothing catches
                   /\ raised' = IF ~BeatmapParses(a.beatmap_path)
                                THEN Some("ParseError") ELSE Some("ArgsError")
                   /\ pc' = "raised"
                   /\ map_max_combo' = None
                   /\ total_objects_for_mode' = 0
                   /\ n300' = 0 /\ n100' = 0 /\ n50' = 0 /\ misses' = 0
                   /\ unseen_objects' = 0
              ELSE /\ raised' = None
                   /\ pc' = "fc_stats"
                   /\ map_max_combo' = MapMaxCombo(attributes)
                   /\ total_objects_for_mode' = total
                   /\ n300' = great /\ n100' = ok /\ n50' = meh /\ misses' = miss
                   /\ unseen_objects' =
                        UnseenObjects(total, PassedObjectsCount(great, ok, meh, miss))
  /\ fc' = None /\ pp_fc' = None /\ actual_pp' = None /\ pp_ss' = None
  /\ result' = None
  /\ UNCHANGED <<history, others>>

\* lines 288-291
FcStats ==
  /\ pc = "fc_stats"
  /\ LET r == calculate_fc_stats(n300, n100, n50, misses,
                                 total_objects_for_mode, unseen_objects)
     IN  /\ fc' = Some(r)
         /\ raised' = r.raised
         /\ pc' = IF r.raised = None THEN "fc_pp" ELSE "raised"
  /\ UNCHANGED <<args, locals, pp_fc, actual_pp, pp_ss, result, history, others>>

\* lines 293-297
FcPp ==
  /\ pc = "fc_pp"
  /\ LET r == calculate_fc_pp(Beatmap(Args.beatmap_path), mods_string, Args.lazer,
                              Fc, map_max_combo,
                              IntOr0(DifficultyAttributes.n_sliders),
                              IntOr0(DifficultyAttributes.n_small_ticks))
     IN  /\ pp_fc' = r.pp
         /\ raised' = r.raised
         /\ pc' = IF r.raised = None THEN "actual_pp" ELSE "raised"
  /\ UNCHANGED <<args, locals, fc, actual_pp, pp_ss, result, history, others>>

\* lines 299-310
ActualPp ==
  /\ pc = "actual_pp"
  /\ actual_pp' = calculate_actual_pp(
                    Beatmap(Args.beatmap_path), mods_string, Args.lazer,
                    n300, n100, n50, misses,
                    IntOr0(Args.score.statistics.slider_tail_hit),
                    IntOr0(Args.score.statistics.small_tick_hit),
                    Args.score.max_combo, Args.score.accuracy)
  /\ pc' = "ss_pp"
  /\ UNCHANGED <<args, locals, fc, pp_fc, pp_ss, result, raised, history, others>>

\* lines 312-313
SsPp ==
  /\ pc = "ss_pp"
  /\ LET r == calculate_ss_pp(Beatmap(Args.beatmap_path), mods_string, Args.lazer)
     IN  /\ pp_ss' = r.pp
         /\ raised' = r.raised
         /\ pc' = IF r.raised = None THEN "return" ELSE "raised"
  /\ UNCHANGED <<args, locals, fc, pp_fc, actual_pp, result, history, others>>

\* lines 315-329; the first result of the reference call is remembered
Return ==
  /\ pc = "return"
  /\ result' = Some(ScoreMetrics(actual_pp, pp_fc, Fc.accuracy_fc, pp_ss,
                                 DifficultyAttributes, Args.score.beatmap,
                                 map_max_combo))
  /\ pc' = "done"
  /\ IF args = probe
     THEN /\ probe_hits' = IF probe_hits < MaxRepeats THEN probe_hits + 1 ELSE probe_hits
          /\ probe_result' = IF probe_hits = 0 THEN result' ELSE probe_result
     ELSE UNCHANGED <<probe_hits, probe_result>>
  /\ UNCHANGED <<args, locals, fc, pp_fc, actual_pp, pp_ss, raised, probe, others>>

(***************************************************************************)
(* The link table (src/utils/database.py).                                 *)
(*                                                                         *)
(* Every call opens its own connection to the one SQLite file.  A write    *)
(* transaction starts with the INSERT and ends with the commit; SQLite     *)
(* lets one connection write at a time, and a reader sees committed rows.  *)
(* The coroutines of the callers interleave at every await.                *)
(***************************************************************************)
LinkCallers == {"a", "b"}

DiscordIds == {1, 2}

\* what the callers ask to link: an account and a preferred_mode
LinkRequests ==
  { [account |-> [osu_user_id |-> 2, osu_username |-> "peppy"],
     preferred_mode |-> "osu"],
    [account |-> [osu_user_id |-> 727, osu_username |-> "727"],
     preferred_mode |-> "mania"],
    [account |-> [osu_user_id |-> 2, osu_username |-> "peppy"],
     preferred_mode |-> "catch"] }

\* bound on the readings of the clock
MaxTime == 1

\* dt.datetime.utcnow().isoformat()
Times == 1 .. MaxTime

\* variant: every mode is let through
AnyModeIsValid(preferred_mode) == TRUE

\* preferred_mode in ["osu", "taiko", "fruits", "mania"]
IsValidMode(preferred_mode) ==
  preferred_mode \in {"osu", "taiko", "fruits", "mania"}

\* the row of the VALUES clause
LinkRow(discord_id, account, preferred_mode, linked_at) ==
  [discord_id |-> discord_id, osu_user_id |-> account.osu_user_id,
   osu_username |-> account.osu_username, preferred_mode |-> preferred_mode,
   linked_at |-> linked_at]

\* variant: ON CONFLICT (discord_id) DO NOTHING
InsertOrIgnore(table, row) ==
  IF \E r \in table : r.discord_id = row.discord_id THEN table
  ELSE table \cup {row}

\* INSERT INTO user_links ... ON CONFLICT (discord_id) DO UPDATE SET ...
Upsert(table, row) ==
  IF \E r \in table : r.discord_id = row.discord_id
  THEN { IF r.discord_id = row.discord_id
         THEN [r EXCEPT !.osu_user_id = row.osu_user_id,
                        !.osu_username = row.osu_username,
                        !.preferred_mode = row.preferred_mode,
                        !.linked_at = row.linked_at]
         ELSE r : r \in table }
  ELSE table \cup {row}

\* (osu_user_id, osu_username, preferred_mode) of a row
LinkOf(row) ==
  [osu_user_id |-> row.osu_user_id, osu_username |-> row.osu_username,
   preferred_mode |-> row.preferred_mode]

\* SELECT ... WHERE discord_id = ?, fetchone(), and the tuple returned
SelectLink(table, discord_id) ==
  LET rows == { r \in table : r.discord_id = discord_id }
  IN  IF rows = {} THEN None ELSE Some(LinkOf(CHOOSE r \in rows : TRUE))

NoLinkCall ==
  [op |-> "none", discord_id |-> 0, account |-> None, preferred_mode |-> "",
   linked_at |-> None]

LinkInit ==
  /\ user_links = {}
  /\ db_writer = None
  /\ link_pc = [c \in LinkCallers |-> "idle"]
  /\ link_call = [c \in LinkCallers |-> NoLinkCall]
  /\ link_out = [c \in LinkCallers |-> [raised |-> None, value |-> None]]
  /\ last_commit = [d \in DiscordIds |-> None]
  /\ link_expected = [c \in LinkCallers |-> None]

LinkCallerFree(c) == link_pc[c] \in {"idle", "returned", "raised"}

\* set_link(discord_id, osu_user_id, osu_username, preferred_mode) is called
SetLinkCall(c) ==
  /\ LinkCallerFree(c)
  /\ \E d \in DiscordIds, request \in LinkRequests :
       link_call' = [link_call EXCEPT ![c] =
                       [op |-> "set_link", discord_id |-> d,
                        account |-> Some(request.account),
                        preferred_mode |-> request.preferred_mode,
                        linked_at |-> None]]
  /\ link_pc' = [link_pc EXCEPT ![c] = "called"]
  /\ link_out' = [link_out EXCEPT ![c] = [raised |-> None, value |-> None]]
  /\ UNCHANGED <<user_links, db_writer, last_commit, link_expected>>
  /\ UNCHANGED <<engine, beatmap_cache, oauth>>

\* lines 63-75: the mode is validated, linked_at is set, the connection opens
SetLinkValidate(c) ==
  /\ link_pc[c] = "called"
  /\ link_call[c].op = "set_link"
  /\ IF ~IsValidMode(link_call[c].preferred_mode)
     THEN /\ link_pc' = [link_pc EXCEPT ![c] = "raised"]
          /\ link_out' = [link_out EXCEPT ![c].raised = Some("ValueError")]
          /\ UNCHANGED link_call
     ELSE /\ \E now \in Times :
               link_call' = [link_call EXCEPT ![c].linked_at =
                               IF @ = None THEN Some(now) ELSE @]
          /\ link_pc' = [link_pc EXCEPT ![c] = "connected"]
          /\ UNCHANGED link_out
  /\ UNCHANGED <<user_links, db_writer, last_commit, link_expected>>
  /\ UNCHANGED <<engine, beatmap_cache, oauth>>

\* lines 77-88: the INSERT runs and opens this connection's write transaction
SetLinkExecute(c) ==
  /\ link_pc[c] = "connected"
  /\ db_writer = None
  /\ db_writer' = Some(c)
  /\ link_pc' = [link_pc EXCEPT ![c] = "executed"]
  /\ UNCHANGED <<user_links, link_call, link_out, last_commit, link_expected>>
  /\ UNCHANGED <<engine, beatmap_cache, oauth>>

\* lines 77-88: another connection keeps the write lock beyond the timeout
SetLinkLocked(c) ==
  /\ link_pc[c] = "connected"
  /\ db_writer # None
  /\ link_pc' = [link_pc EXCEPT ![c] = "raised"]
  /\ link_out' = [link_out EXCEPT ![c].raised = Some("OperationalError")]
  /\ UNCHANGED <<user_links, db_writer, link_call, last_commit, link_expected>>
  /\ UNCHANGED <<engine, beatmap_cache, oauth>>

\* lines 89-91: the commit makes the row visible and ends the transaction
SetLinkCommit(c) ==
  /\ link_pc[c] = "executed"
  /\ LET call == link_call[c]
         row  == LinkRow(call.discord_id, Get(call.account), call.preferred_mode,
                         Get(call.linked_at))
     IN  /\ user_links' = Upsert(user_links, row)
         /\ last_commit' = [last_commit EXCEPT ![call.discord_id] = Some(LinkOf(row))]
  /\ db_writer' = None
  /\ link_pc' = [link_pc EXCEPT ![c] = "returned"]
  /\ UNCHANGED <<link_call, link_out, link_expected>>
  /\ UNCHANGED <<engine, beatmap_cache, oauth>>

\* get_link(discord_id) is called and opens its connection: lines 106-107
GetLinkCall(c) ==
  /\ LinkCallerFree(c)
  /\ \E d \in DiscordIds :
       link_call' = [link_call EXCEPT ![c] = [NoLinkCall EXCEPT !.op = "get_link",
                                                               !.discord_id = d]]
  /\ link_pc' = [link_pc EXCEPT ![c] = "selecting"]
  /\ link_out' = [link_out EXCEPT ![c] = [raised |-> None, value |-> None]]
  /\ UNCHANGED <<user_links, db_writer, last_commit, link_expected>>
  /\ UNCHANGED <<engine, beatmap_cache, oauth>>

\* lines 109-124: the SELECT runs and the tuple, or None, is returned
GetLinkSelect(c) ==
  /\ link_pc[c] = "selecting"
  /\ link_out' = [link_out EXCEPT ![c].value =
                    SelectLink(user_links, link_call[c].discord_id)]
  /\ link_expected' = [link_expected EXCEPT ![c] = last_commit[link_call[c].discord_id]]
  /\ link_pc' = [link_pc EXCEPT ![c] = "returned"]
  /\ UNCHANGED <<user_links, db_writer, link_call, last_commit>>
  /\ UNCHANGED <<engine, beatmap_cache, oauth>>

LinkNext ==
  \E c \in LinkCallers :
    \/ SetLinkCall(c)
    \/ SetLinkValidate(c)
    \/ SetLinkExecute(c)
    \/ SetLinkLocked(c)
    \/ SetLinkCommit(c)
    \/ GetLinkCall(c)
    \/ GetLinkSelect(c)

(***************************************************************************)
(* The beatmap file cache (OsuClient.download_beatmap, src/utils/          *)
(* osu_api.py).  The coroutine runs without interruption up to the await   *)
(* of the HTTP request and again from the response to its return.          *)
(***************************************************************************)
Downloaders == {"a", "b"}

BeatmapIds == {1, 2}

\* response.content of a response that passes raise_for_status
ResponseBodies == {"", "osu file format v14"}

\* bound on the HTTP requests counted per beatmap ID
MaxFetches == 2

\* os.path.join(BEATMAP_CACHE_DIR, f"{beatmap_id}.osu")
CachePath(beatmap_id) == [dir |-> "BEATMAP_CACHE_DIR", beatmap_id |-> beatmap_id]

\* variant: the cache is never consulted
IsCachedNever(file) == FALSE

\* os.path.exists(path) and os.path.getsize(path) > 0
IsCached(file) == file # None /\ Len(Get(file)) > 0

NoDownloadCall ==
  [beatmap_id |-> 0, cached |-> FALSE, after_stored |-> FALSE]

CacheInit ==
  /\ cache = [b \in BeatmapIds |-> None]
  /\ dl_pc = [c \in Downloaders |-> "idle"]
  /\ dl_call = [c \in Downloaders |-> NoDownloadCall]
  /\ dl_out = [c \in Downloaders |-> [raised |-> None, path |-> None]]
  /\ fetches = [b \in BeatmapIds |-> 0]
  /\ downloaded = [b \in BeatmapIds |-> FALSE]

\* download_beatmap(beatmap_id) is called
DownloadCall(c) ==
  /\ dl_pc[c] \in {"idle", "returned", "raised"}
  /\ \E b \in BeatmapIds :
       dl_call' = [dl_call EXCEPT ![c] = [NoDownloadCall EXCEPT !.beatmap_id = b]]
  /\ dl_pc' = [dl_pc EXCEPT ![c] = "called"]
  /\ dl_out' = [dl_out EXCEPT ![c] = [raised |-> None, path |-> None]]
  /\ UNCHANGED <<cache, fetches, downloaded>>
  /\ UNCHANGED <<engine, link, oauth>>

\* lines 222-228: the cached path is returned, or the request is issued.
\* The call remembers what it found: a non-empty file, and whether a download
\* of the ID had returned before and its file is there, not empty.
DownloadCheck(c) ==
  /\ dl_pc[c] = "called"
  /\ LET b == dl_call[c].beatmap_id
     IN  /\ dl_call' = [dl_call EXCEPT ![c].cached = IsCached(cache[b]),
                                       ![c].after_stored =
                                          downloaded[b] /\ cache[b] # None
                                            /\ cache[b] # Some("")]
         /\ IF IsCached(cache[b])
            THEN /\ dl_pc' = [dl_pc EXCEPT ![c] = "returned"]
                 /\ dl_out' = [dl_out EXCEPT ![c].path = Some(CachePath(b))]
                 /\ UNCHANGED fetches
            ELSE /\ fetches[b] < MaxFetches
                 /\ dl_pc' = [dl_pc EXCEPT ![c] = "awaiting"]
                 /\ fetches' = [fetches EXCEPT ![b] = @ + 1]
                 /\ UNCHANGED dl_out
  /\ UNCHANGED <<cache, downloaded>>
  /\ UNCHANGED <<engine, link, oauth>>

\* lines 228-229: the request fails, or raise_for_status raises
DownloadFails(c) ==
  /\ dl_pc[c] = "awaiting"
  /\ dl_pc' = [dl_pc EXCEPT ![c] = "raised"]
  /\ dl_out' = [dl_out EXCEPT ![c].raised = Some("HTTPError")]
  /\ UNCHANGED <<cache, dl_call, fetches, downloaded>>
  /\ UNCHANGED <<engine, link, oauth>>

\* lines 228-232: the body of the response is written and the path returned
DownloadStore(c) ==
  /\ dl_pc[c] = "awaiting"
  /\ \E content \in ResponseBodies :
       cache' = [cache EXCEPT ![dl_call[c].beatmap_id] = Some(content)]
  /\ downloaded' = [downloaded EXCEPT ![dl_call[c].beatmap_id] = TRUE]
  /\ dl_pc' = [dl_pc EXCEPT ![c] = "returned"]
  /\ dl_out' = [dl_out EXCEPT ![c].path = Some(CachePath(dl_call[c].beatmap_id))]
  /\ UNCHANGED <<dl_call, fetches>>
  /\ UNCHANGED <<engine, link, oauth>>

CacheNext ==
  \E c \in Downloaders :
    \/ DownloadCall(c)
    \/ DownloadCheck(c)
    \/ DownloadFails(c)
    \/ DownloadStore(c)

(***************************************************************************)
(* The OAuth redirect handler (src/oauth_server.py).                       *)
(*                                                                         *)
(* Each request of /osu/callback is served by a coroutine of its own; the  *)
(* coroutines interleave at every await.  set_link is the one of the link  *)
(* table above, run by the handler as its caller.  create_oauth_state and  *)
(* pop_oauth_state are not part of the sources: a state is a fresh token   *)
(* bound to a discord_id, and it is looked up and deleted in one step, as  *)
(* a single-use handler needs.                                             *)
(***************************************************************************)
Handlers == LinkCallers

\* the tokens create_oauth_state can hand out
StateTokens == {"s1", "s2"}

\* request.query.get("state"): absent, issued at some time, or never issued
RequestStates == {None} \cup { Some(t) : t \in StateTokens \cup {"forged"} }

\* request.query.get("code")
RequestCodes == {None, Some("code")}

\* the answers of https://osu.ppy.sh/oauth/token
TokenResponses ==
  { [status |-> 200, access_token |-> Some("token")],
    [status |-> 200, access_token |-> None],
    [status |-> 400, access_token |-> None] }

\* the answers of https://osu.ppy.sh/api/v2/me
ProfileResponses ==
  { [status |-> 200, me |-> Some([osu_user_id |-> 2, osu_username |-> "peppy"])],
    [status |-> 200, me |-> Some([osu_user_id |-> 727, osu_username |-> "727"])],
    [status |-> 401, me |-> None] }

\* user.send(...): delivered, or an exception that the handler logs
DmOutcomes == {"sent", "failed"}

\* create_oauth_state(discord_id), with the token it draws
CreateOAuthState(states, token, discord_id) ==
  states \cup {[state |-> token, discord_id |-> discord_id]}

\* pop_oauth_state(state): the discord_id of the state, which is deleted
PopOAuthState(states, token) ==
  LET found == { e \in states : e.state = token }
  IN  [discord_id |-> IF found = {} THEN None
                      ELSE Some((CHOOSE e \in found : TRUE).discord_id),
       states |-> states \ found]

\* variant: only the status is looked at
TokenStatusOk(response) == response.status = 200

\* resp.status == 200 and tok.get("access_token"): lines 120-132
TokenExchanged(response) ==
  response.status = 200 /\ response.access_token # None

\* resp.status == 200: lines 138-143
ProfileFetched(response) == response.status = 200

NoRequest ==
  [code |-> None, state |-> None, discord_id |-> None, token |-> None,
   profile |-> None, set_link |-> FALSE, dm |-> None, response |-> None]

OAuthInit ==
  /\ oauth_states = {}
  /\ issued = {}
  /\ cb_pc = [h \in Handlers |-> "idle"]
  /\ cb = [h \in Handlers |-> NoRequest]
  /\ set_link_calls = [t \in StateTokens |-> 0]

\* authorize_url_for(discord_id): lines 77-86
AuthorizeUrlFor ==
  /\ \E d \in DiscordIds, t \in StateTokens \ issued :
       /\ oauth_states' = CreateOAuthState(oauth_states, t, d)
       /\ issued' = issued \cup {t}
  /\ UNCHANGED <<cb_pc, cb, set_link_calls>>
  /\ UNCHANGED <<engine, link, beatmap_cache>>

\* web.Response(text=..., status=status)
Respond(h, status) ==
  /\ cb_pc' = [cb_pc EXCEPT ![h] = "responded"]
  /\ cb' = [cb EXCEPT ![h].response = Some(status)]

\* a request arrives: lines 98-103
CallbackReceive(h) ==
  /\ cb_pc[h] \in {"idle", "responded"}
  /\ \E code \in RequestCodes, state \in RequestStates :
       LET request == [NoRequest EXCEPT !.code = code, !.state = state]
       IN  IF code = None \/ state = None
           THEN /\ cb_pc' = [cb_pc EXCEPT ![h] = "responded"]
                /\ cb' = [cb EXCEPT ![h] = [request EXCEPT !.response = Some(400)]]
           ELSE /\ cb_pc' = [cb_pc EXCEPT ![h] = "state"]
                /\ cb' = [cb EXCEPT ![h] = request]
  /\ UNCHANGED <<oauth_states, issued, set_link_calls>>
  /\ UNCHANGED <<engine, link, beatmap_cache>>

\* lines 105-108
CallbackPopState(h) ==
  /\ cb_pc[h] = "state"
  /\ LET popped == PopOAuthState(oauth_states, Get(cb[h].state))
     IN  /\ oauth_states' = popped.states
         /\ IF popped.discord_id = None
            THEN Respond(h, 400)
            ELSE /\ cb_pc' = [cb_pc EXCEPT ![h] = "token"]
                 /\ cb' = [cb EXCEPT ![h].discord_id = popped.discord_id]
  /\ UNCHANGED <<issued, set_link_calls>>
  /\ UNCHANGED <<engine, link, beatmap_cache>>

\* lines 110-132
CallbackExchange(h) ==
  /\ cb_pc[h] = "token"
  /\ \E response \in TokenResponses :
       IF TokenExchanged(response)
       THEN /\ cb_pc' = [cb_pc EXCEPT ![h] = "profile"]
            /\ cb' = [cb EXCEPT ![h].token = Some(response)]
       ELSE /\ cb_pc' = [cb_pc EXCEPT ![h] = "responded"]
            /\ cb' = [cb EXCEPT ![h].token = Some(response),
                                ![h].response = Some(500)]
  /\ UNCHANGED <<oauth_states, issued, set_link_calls>>
  /\ UNCHANGED <<engine, link, beatmap_cache>>

\* lines 134-148: the profile is fetched and set_link is called
CallbackProfile(h) ==
  /\ cb_pc[h] = "profile"
  /\ \E response \in ProfileResponses :
       IF ProfileFetched(response)
       THEN /\ cb_pc' = [cb_pc EXCEPT ![h] = "linking"]
            /\ cb' = [cb EXCEPT ![h].profile = Some(response),
                                ![h].set_link = TRUE]
            /\ link_call' = [link_call EXCEPT ![h] =
                               [op |-> "set_link",
                                discord_id |-> Get(cb[h].discord_id),
                                account |-> response.me,
                                preferred_mode |-> "osu",
                                linked_at |-> None]]
            /\ link_pc' = [link_pc EXCEPT ![h] = "called"]
            /\ link_out' = [link_out EXCEPT ![h] = [raised |-> None, value |-> None]]
            /\ set_link_calls' = [set_link_calls EXCEPT ![Get(cb[h].state)] = @ + 1]
       ELSE /\ cb_pc' = [cb_pc EXCEPT ![h] = "responded"]
            /\ cb' = [cb EXCEPT ![h].profile = Some(response),
                                ![h].response = Some(500)]
            /\ UNCHANGED <<link_call, link_pc, link_out, set_link_calls>>
  /\ UNCHANGED <<oauth_states, issued>>
  /\ UNCHANGED <<user_links, db_writer, last_commit, link_expected>>
  /\ UNCHANGED <<engine, beatmap_cache>>

\* lines 148-174: set_link has returned; the DM is tried and the page sent
CallbackLinked(h) ==
  /\ cb_pc[h] = "linking"
  /\ link_pc[h] = "returned"
  /\ \E dm \in DmOutcomes :
       /\ cb_pc' = [cb_pc EXCEPT ![h] = "responded"]
       /\ cb' = [cb EXCEPT ![h].dm = Some(dm), ![h].response = Some(200)]
  /\ UNCHANGED <<oauth_states, issued, set_link_calls>>
  /\ UNCHANGED <<engine, link, beatmap_cache>>

\* line 148: set_link raised; the server answers 500
CallbackLinkFailed(h) ==
  /\ cb_pc[h] = "linking"
  /\ link_pc[h] = "raised"
  /\ Respond(h, 500)
  /\ UNCHANGED <<oauth_states, issued, set_link_calls>>
  /\ UNCHANGED <<engine, link, beatmap_cache>>

OAuthNext ==
  \/ AuthorizeUrlFor
  \/ \E h \in Handlers :
       \/ CallbackReceive(h)
       \/ CallbackPopState(h)
       \/ CallbackExchange(h)
       \/ CallbackProfile(h)
       \/ SetLinkValidate(h)
       \/ SetLinkExecute(h)
       \/ SetLinkLocked(h)
       \/ SetLinkCommit(h)
       \/ CallbackLinked(h)
       \/ CallbackLinkFailed(h)

(***************************************************************************)
(* Specifications                                                          *)
(***************************************************************************)
Init == EngineInit /\ LinkInit /\ CacheInit /\ OAuthInit

Next == Call \/ FcStats \/ FcPp \/ ActualPp \/ SsPp \/ Return

\* calls of calculate_score_metrics
Spec == Init /\ [][Next]_vars

\* the engine is idle, without a reference call
EngineIdle == EngineInit /\ probe = None

LinkSpecInit == EngineIdle /\ LinkInit /\ CacheInit /\ OAuthInit

\* concurrent calls of set_link and get_link
LinkSpec == LinkSpecInit /\ [][LinkNext]_vars

CacheSpecInit == EngineIdle /\ LinkInit /\ CacheInit /\ OAuthInit

\* concurrent calls of download_beatmap
CacheSpec == CacheSpecInit /\ [][CacheNext]_vars

OAuthSpecInit == EngineIdle /\ LinkInit /\ CacheInit /\ OAuthInit

\* authorizations and concurrent requests of /osu/callback
OAuthSpec == OAuthSpecInit /\ [][OAuthNext]_vars

(***************************************************************************)
(* Properties                                                              *)
(***************************************************************************)
NonNegativeStatistics == n300 >= 0 /\ n100 >= 0 /\ n50 >= 0 /\ misses >= 0

PassedCount == n300 + n100 + n50 + misses

\* (300*great + 100*ok + 50*meh) / (300*objects) * 100 of the play itself
PlayAccuracy(objects) ==
  FloatMulInt(FloatDiv(300 * n300 + 100 * n100 + 50 * n50, 300 * objects), 100)

\* the ceiling of n / d in exact integer arithmetic, d > 0
CeilDiv(n, d) == 0 - ((0 - n) \div d)

\* ceil(max(0, 1 - seed/counted) * miss) in exact arithmetic, counted > 0
ExactNewOk(seed, counted, miss) ==
  IF seed >= counted THEN 0 ELSE CeilDiv((counted - seed) * miss, counted)

FcReturned == pc = "fc_pp"

C1Case ==
  /\ FcReturned
  /\ NonNegativeStatistics
  /\ 0 < PassedCount
  /\ PassedCount <= total_objects_for_mode

\* C1: for non-negative hit statistics with 0 < passedCount <= totalObjectsForMode
\* the accuracy of the full-combo projection is at least the accuracy of the
\* play itself, and it is exactly 100 in the guard branch.
C1_FcAccuracyAtLeastActual ==
  C1Case =>
    /\ FloatGe(Fc.accuracy_fc, PlayAccuracy(PassedCount))
    /\ Fc.branch = "ss" => Fc.accuracy_fc = Float100

C1_Witness ==
  /\ C1Case
  /\ Fc.branch = "redistribute"
  /\ misses > 0 /\ unseen_objects > 0 /\ n100 > 0
  /\ ~FloatGe(PlayAccuracy(PassedCount), Fc.accuracy_fc)

C2Case ==
  /\ FcReturned
  /\ NonNegativeStatistics
  /\ misses = 0
  /\ n300 + n100 + n50 = total_objects_for_mode
  /\ total_objects_for_mode > 0

\* C2: with no miss and every object passed the redistribution changes
\* nothing: the full-combo counts are the counts of the play and the
\* full-combo accuracy is the accuracy of the play.
C2_NoMissNoUnseenIsNoOp ==
  C2Case =>
    /\ unseen_objects = 0
    /\ Fc.n300_fc = n300 /\ Fc.n100_fc = n100 /\ Fc.n50_fc = n50
    /\ Fc.misses_fc = 0
    /\ Fc.accuracy_fc = PlayAccuracy(total_objects_for_mode)

C2_Witness == C2Case /\ n300 > 0 /\ n100 > 0 /\ n50 > 0

\* C3: with no circle and no slider, hence no max combo, the call returns a
\* ScoreMetrics of the treat-as-SS branch (accuracy_if_fc = 100) instead of
\* raising, under both scoring models.
C3_EmptyMapReturnsSS ==
  (/\ pc \in {"done", "raised"}
   /\ total_objects_for_mode = 0
   /\ map_max_combo = None
   /\ NonNegativeStatistics) =>
    /\ pc = "done"
    /\ Fc.branch = "ss"
    /\ Get(result).accuracy_if_fc = Float100

C4Case ==
  /\ pc = "done"
  /\ probe_hits > 0
  /\ Args.beatmap_path = Get(probe).beatmap_path
  /\ Args.score.mods = Get(probe).score.mods
  /\ Args.lazer = Get(probe).lazer

\* C4: two calls with the same beatmap, mods and scoring model configure the
\* If-Perfect evaluation alike (accuracy 100, no miss, the mod string) and
\* return the same pp_if_ss, whatever the plays were.
C4_SsPpIndependentOfPlay ==
  C4Case =>
    LET ss == Get(Get(result).pp_if_ss).performance
    IN  /\ ss.accuracy = Some(Float100)
        /\ ss.misses = Some(0)
        /\ ss.mods = Some(mods_string)
        /\ Get(result).pp_if_ss = Get(probe_result).pp_if_ss

C4_Witness ==
  /\ C4Case
  /\ Args.score.statistics # Get(probe).score.statistics
  /\ Args.score.max_combo # Get(probe).score.max_combo
  /\ Args.score.accuracy # Get(probe).score.accuracy
  /\ misses > 0
  /\ Get(result).pp # Get(probe_result).pp

\* C5: a call with the inputs of an earlier call returns the ScoreMetrics
\* that call returned, whatever calls were made in between.
C5_SameInputsSameMetrics ==
  (pc = "done" /\ probe_hits > 0 /\ args = probe) => result = probe_result

C5_Witness == pc = "done" /\ args = probe /\ probe_hits = MaxRepeats

\* C6: outside the guard branch the function returns the counts of the
\* exact formula: newOk = ceil(max(0, 1 - seed/countedHits) * miss),
\* bestFc = seed + max(0, miss - newOk), okFc = ok + newOk, mehFc = meh,
\* missFc = 0, accuracyFc = (300*bestFc + 100*okFc + 50*mehFc) / (300*total) * 100.
C6_ExactRedistribution ==
  (FcReturned /\ total_objects_for_mode > 0
              /\ total_objects_for_mode - misses > 0) =>
    LET unseen  == IF total_objects_for_mode - PassedCount > 0
                   THEN total_objects_for_mode - PassedCount ELSE 0
        seed    == n300 + unseen
        counted == total_objects_for_mode - misses
        newOk   == ExactNewOk(seed, counted, misses)
        bestFc  == seed + (IF misses - newOk > 0 THEN misses - newOk ELSE 0)
    IN  /\ Fc.new_100s = Some(newOk)
        /\ Fc.n300_fc = bestFc
        /\ Fc.n100_fc = n100 + newOk
        /\ Fc.n50_fc = n50
        /\ Fc.misses_fc = 0
        /\ Fc.accuracy_fc =
             FloatMulInt(FloatDiv(300 * bestFc + 100 * (n100 + newOk) + 50 * n50,
                                  300 * total_objects_for_mode), 100)

ScenarioA ==
  /\ FcReturned
  /\ total_objects_for_mode = 100
  /\ n300 = 80 /\ n100 = 10 /\ n50 = 5 /\ misses = 5
  /\ unseen_objects = 0

ScenarioACounts ==
  /\ Fc.counted_hits = 95
  /\ Fc.new_100s = Some(1)
  /\ Fc.n300_fc = 84 /\ Fc.n100_fc = 11 /\ Fc.n50_fc = 5

\* C7 as stated: scenario A yields countedHits = 95, newOkFromMisses = 1,
\* bestFc = 84, okFc = 11, mehFc = 5 and accuracyFc = 86.0.
C7_ScenarioA_Stated ==
  ScenarioA => ScenarioACounts /\ Fc.accuracy_fc = FloatOfInt(86)

\* C7 amended: scenario A yields countedHits = 95, newOkFromMisses = 1,
\* bestFc = 84, okFc = 11, mehFc = 5 and accuracyFc = 88.5.
C7_ScenarioA ==
  ScenarioA => ScenarioACounts /\ Fc.accuracy_fc = FloatDiv(177, 2)

C7_Witness == ScenarioA /\ Fc.branch = "redistribute" /\ Fc.n300_fc = 84

C8Case ==
  /\ fc # None
  /\ total_objects_for_mode > 0
  /\ n300 = 0 /\ n100 = 0 /\ n50 = 0 /\ misses = 0

\* C8: a play that passed no object of a map with objects has every object
\* unseen; the redistribution does not raise and returns bestFc =
\* totalObjectsForMode, no ok, meh or miss, and an accuracy of 100.
C8_NothingPassedIsFullSS ==
  C8Case =>
    /\ unseen_objects = total_objects_for_mode
    /\ Fc.raised = None
    /\ Fc.n300_fc = total_objects_for_mode
    /\ Fc.n100_fc = 0 /\ Fc.n50_fc = 0 /\ Fc.misses_fc = 0
    /\ Fc.accuracy_fc = Float100

C8_Witness ==
  C8Case /\ total_objects_for_mode = 50 /\ unseen_objects = 50 /\ Fc.n300_fc = 50

\* C9: the guard branch is taken exactly when totalObjectsForMode - miss <= 0
\* or totalObjectsForMode <= 0, and it returns accuracy 100, no miss and the
\* ok and meh of the play; in the other branch both divisors, countedHits
\* and 300*totalObjectsForMode, are positive and no division by zero is raised.
C9_GuardExcludesZeroDivisors ==
  fc # None =>
    /\ Fc.branch = "ss" <=>
         (total_objects_for_mode - misses <= 0 \/ total_objects_for_mode <= 0)
    /\ Fc.branch = "ss" =>
         /\ Fc.accuracy_fc = Float100
         /\ Fc.misses_fc = 0
         /\ Fc.n100_fc = n100 /\ Fc.n50_fc = n50
    /\ Fc.branch = "redistribute" =>
         /\ Fc.counted_hits > 0
         /\ 300 * total_objects_for_mode > 0
         /\ Fc.raised = None

C9_Witness ==
  /\ fc # None
  /\ NonNegativeStatistics
  /\ Fc.branch = "ss"
  /\ total_objects_for_mode > 0
  /\ misses = total_objects_for_mode
  /\ Fc.raised = None

\* C10: for every integer hit statistics, negative ones included, the
\* redistribution returns no negative count: bestFc >= 0, okFc >= 0 and the
\* number of misses turned into ok is >= 0.
C10_NoNegativeRedistributedCount ==
  fc # None =>
    /\ Fc.n300_fc >= 0
    /\ Fc.n100_fc >= 0
    /\ Fc.new_100s # None => Get(Fc.new_100s) >= 0

\* the call has ended: it returned or an exception reached the caller
Ended == pc \in {"done", "raised"}

\* the calculator parsed the file, accepted the mods and has every pp value
CalculatorAnswers ==
  /\ Args.beatmap_path.parses
  /\ AcceptsMods(mods_string)
  /\ Args.beatmap_path.no_pp_for = {}

\* C11: for non-negative hit statistics, passedCount above totalObjectsForMode
\* included, the accuracy_if_fc returned lies between 0 and 100.
C11_AccuracyIfFcInRange ==
  (pc = "done" /\ NonNegativeStatistics) =>
    /\ FloatGe(Get(result).accuracy_if_fc, FloatZero)
    /\ FloatGe(Float100, Get(result).accuracy_if_fc)

C12Case ==
  /\ pc # "idle"
  /\ ~Args.beatmap_path.parses \/ mods_string \in InvalidModStrings

ActualPerformance ==
  performance_actual(mods_string, Args.lazer, n300, n100, n50, misses,
                     IntOr0(Args.score.statistics.slider_tail_hit),
                     IntOr0(Args.score.statistics.small_tick_hit),
                     Args.score.max_combo, Args.score.accuracy)

FcPerformance ==
  IF Args.lazer
  THEN performance_fc_lazer(mods_string, Fc, IntOr0(DifficultyAttributes.n_sliders),
                            IntOr0(DifficultyAttributes.n_small_ticks))
  ELSE performance_fc_stable(mods_string, Fc, map_max_combo)

SsPerformance == performance_ss(mods_string, Args.lazer)

\* C13: when the calculator has no pp value for one of the evaluations, the
\* call still returns, and pp, pp_if_fc and pp_if_ss are absent exactly for
\* the evaluations without a value; the others carry the calculator's value.
C13_AbsentPpIsAbsentField ==
  (/\ Ended
   /\ Args.beatmap_path.parses /\ AcceptsMods(mods_string)
   /\ map_max_combo # None
   /\ Args.beatmap_path.no_pp_for # {}) =>
    /\ pc = "done"
    /\ Get(result).pp = None <=> ActualPerformance \in Args.beatmap_path.no_pp_for
    /\ Get(result).pp_if_fc = None <=> FcPerformance \in Args.beatmap_path.no_pp_for
    /\ Get(result).pp_if_ss = None <=> SsPerformance \in Args.beatmap_path.no_pp_for

\* C14: once the file parsed and the mods were accepted the call returns a
\* ScoreMetrics for every non-negative statistics and every attributes, under
\* both scoring models; with the accuracy-based model and no max combo the
\* If-FC evaluation is configured without a combo.
C14_NoOtherFailureMode ==
  (Ended /\ NonNegativeStatistics /\ CalculatorAnswers) =>
    /\ pc = "done"
    /\ (~Args.lazer /\ map_max_combo = None) =>
         Get(Get(result).pp_if_fc).performance.combo = None

\* an output field is absent exactly when its source is, else equal to it
PassedThrough(out, source) ==
  /\ out = None <=> source = None
  /\ source # None => Get(out) = FloatOfInt(Get(source))

\* C15: the metadata fields and map_max_combo of the result are absent
\* exactly when their source is absent and equal it otherwise, a max combo
\* of 0 included; no evaluation is configured with a combo that is not the
\* combo it was given.
C15_AbsentInputsStayAbsent ==
  pc = "done" =>
    LET r    == Get(result)
        info == Args.score.beatmap
    IN  /\ PassedThrough(r.map_cs, info.cs)
        /\ PassedThrough(r.map_ar, info.ar)
        /\ PassedThrough(r.map_od, info.accuracy)
        /\ PassedThrough(r.map_hp, info.drain)
        /\ PassedThrough(r.map_bpm, info.bpm)
        /\ r.map_length_sec = info.total_length
        /\ r.map_max_combo = DifficultyAttributes.max_combo
        /\ r.pp # None => Get(r.pp).performance.combo = Args.score.max_combo
        /\ r.pp_if_fc # None =>
             Get(r.pp_if_fc).performance.combo \in {None, DifficultyAttributes.max_combo}
        /\ r.pp_if_ss # None => Get(r.pp_if_ss).performance.combo = None

\* an entry whose acronym the conversion can read: a dict needs a str
HasAcronym(mod) == mod.acronym # None /\ (mod.is_dict => mod.is_str)

\* the acronyms of the entries i.. of a mod list, in list order
RECURSIVE AcronymsInOrder(_, _)
AcronymsInOrder(mods, i) ==
  IF i > Len(mods) THEN ""
  ELSE IF HasAcronym(mods[i])
  THEN Upper(Get(mods[i].acronym)) \o AcronymsInOrder(mods, i + 1)
  ELSE AcronymsInOrder(mods, i + 1)

ModList == IF Args.score.mods = None THEN <<>> ELSE Get(Args.score.mods)

\* C16: the mod string handed to the calculator is the concatenation, in
\* list order, of the acronyms of the mods of the score, whatever entry
\* could not be converted, and it is empty only for a list without mods.
C16_ModStringKeepsEveryAcronym ==
  pc # "idle" =>
    /\ mods_string = AcronymsInOrder(ModList, 1)
    /\ mods_string = "" => ModList = <<>>

\* C17: the table holds at most one row per discord_id; what get_link
\* returns for a discord_id, now and whenever a call returned, is the link
\* of the last commit of a set_link for it, or None without one; rows of
\* other discord_ids are as their own last commit left them.
C17_OneRowPerUserLastCommitWins ==
  /\ \A r1, r2 \in user_links : r1.discord_id = r2.discord_id => r1 = r2
  /\ \A d \in DiscordIds : SelectLink(user_links, d) = last_commit[d]
  /\ \A c \in LinkCallers :
       (link_pc[c] = "returned" /\ link_call[c].op = "get_link") =>
         link_out[c].value = link_expected[c]

C17_Witness ==
  \E c1, c2 \in LinkCallers :
    /\ c1 # c2
    /\ link_pc[c1] = "returned" /\ link_call[c1].op = "get_link"
    /\ link_out[c1].value # None
    /\ link_pc[c2] = "returned" /\ link_call[c2].op = "set_link"
    /\ link_call[c2].discord_id = link_call[c1].discord_id
    /\ Get(link_call[c2].account).osu_user_id # Get(link_out[c1].value).osu_user_id
    /\ \E d \in DiscordIds : d # link_call[c1].discord_id /\ last_commit[d] # None

\* the step in which caller c's set_link validates its preferred_mode
ValidationStep(c) ==
  /\ link_pc[c] = "called"
  /\ link_call[c].op = "set_link"
  /\ link_pc'[c] # "called"

\* C18: a set_link with a preferred_mode outside osu, taiko, fruits, mania
\* raises ValueError in its validation step, which writes nothing: the
\* table, the write transaction and what get_link returns are unchanged.
C18_InvalidModeRaisesAndWritesNothing ==
  [][\A c \in LinkCallers :
       (ValidationStep(c)
          /\ link_call[c].preferred_mode \notin {"osu", "taiko", "fruits", "mania"}) =>
         /\ link_pc'[c] = "raised"
         /\ link_out'[c].raised = Some("ValueError")
         /\ UNCHANGED <<user_links, db_writer>>
         /\ \A d \in DiscordIds :
              SelectLink(user_links', d) = SelectLink(user_links, d)]_vars

C18_Witness ==
  \E c \in LinkCallers :
    /\ link_pc[c] = "raised"
    /\ link_out[c].raised = Some("ValueError")
    /\ link_call[c].preferred_mode = "catch"
    /\ SelectLink(user_links, link_call[c].discord_id) # None

\* the step in which caller c's download_beatmap looks into the cache
CheckStep(c) == dl_pc[c] = "called" /\ dl_pc'[c] # "called"

\* the step returns the cached path, without a request or a write
ShortCircuits(c) ==
  /\ dl_pc'[c] = "returned"
  /\ dl_out'[c].path = Some(CachePath(dl_call[c].beatmap_id))
  /\ UNCHANGED <<cache, fetches>>

\* C19 as stated: a call that finds a non-empty file for its ID returns the
\* path without a request and without writing, and so does every call made
\* after a download of the ID has returned.
C19_NoFetchAfterDownload_Stated ==
  [][\A c \in Downloaders :
       (CheckStep(c)
          /\ (cache[dl_call[c].beatmap_id] \notin {None, Some("")}
                \/ downloaded[dl_call[c].beatmap_id])) =>
         ShortCircuits(c)]_vars

\* C19 amended: a call that finds a non-empty file for its ID returns the
\* path without a request and without writing; a call made after a download
\* of the ID has returned does so when the file that is there is not empty.
C19_CachedCallShortCircuits ==
  [][\A c \in Downloaders :
       (CheckStep(c) /\ cache[dl_call[c].beatmap_id] \notin {None, Some("")}) =>
         ShortCircuits(c)]_vars

C19_Witness ==
  \E c \in Downloaders :
    /\ dl_pc[c] = "returned"
    /\ dl_call[c].cached /\ dl_call[c].after_stored
    /\ fetches[dl_call[c].beatmap_id] = 1
    /\ cache[dl_call[c].beatmap_id] = Some("osu file format v14")

\* C20: under the full-judgement model the If-FC evaluation is configured
\* with the redistributed counts, no miss, slider_end_hits = n_sliders and
\* small_tick_hits = n_small_ticks, for every n_small_ticks, 0 included.
C20_LazerFcSliderJudgementsAtMaximum ==
  (pc \in {"actual_pp", "ss_pp", "return", "done"} /\ Args.lazer /\ pp_fc # None) =>
    LET performance == Get(pp_fc).performance
    IN  /\ performance.n300 = Some(Fc.n300_fc)
        /\ performance.n100 = Some(Fc.n100_fc)
        /\ performance.n50 = Some(Fc.n50_fc)
        /\ performance.misses = Some(0)
        /\ performance.slider_end_hits = Some(IntOr0(DifficultyAttributes.n_sliders))
        /\ performance.small_tick_hits =
             Some(IntOr0(DifficultyAttributes.n_small_ticks))

\* no setting of the hit-count kind, of the accuracy kind, of the combo
Unset(performance, fields) == \A f \in fields : performance[f] = None

HitCountFields == {"n300", "n100", "n50", "slider_end_hits", "small_tick_hits"}

C21Case == pc = "done" /\ CalculatorAnswers

\* C21: each of the three evaluations is configured on an object of its own:
\* it carries the mod string and the settings of its own evaluation, and every
\* setting that only another evaluation makes is unset in it, so that each pp
\* is the calculator's value for that evaluation run alone.
C21_EvaluationsShareNoSettings ==
  C21Case =>
    LET actual == Get(Get(result).pp).performance
        fcp    == Get(Get(result).pp_if_fc).performance
        ss     == Get(Get(result).pp_if_ss).performance
    IN  /\ \A p \in {actual, fcp, ss} :
             p.mods = Some(mods_string) /\ p.lazer = Args.lazer
        \* If-Perfect: accuracy and misses only
        /\ ss.accuracy = Some(Float100) /\ ss.misses = Some(0)
        /\ Unset(ss, HitCountFields \cup {"combo"})
        \* Actual: the play, the combo only if the score has one
        /\ actual.misses = Some(misses)
        /\ actual.combo = Args.score.max_combo
        /\ IF Args.lazer
           THEN /\ actual.n300 = Some(n300) /\ actual.n100 = Some(n100)
                /\ actual.n50 = Some(n50)
                /\ Unset(actual, {"accuracy"})
           ELSE /\ actual.accuracy = Some(FloatMulInt(Args.score.accuracy, 100))
                /\ Unset(actual, HitCountFields)
        \* If-FC: the redistributed counts, or accuracy_fc and the map's combo
        /\ fcp.misses = Some(0)
        /\ IF Args.lazer
           THEN /\ fcp.n300 = Some(Fc.n300_fc) /\ fcp.n100 = Some(Fc.n100_fc)
                /\ fcp.n50 = Some(Fc.n50_fc)
                /\ Unset(fcp, {"accuracy", "combo"})
           ELSE /\ fcp.accuracy = Some(Fc.accuracy_fc)
                /\ fcp.combo = map_max_combo
                /\ Unset(fcp, HitCountFields)
        /\ Get(result).pp = PerformanceCalculate(ActualPerformance, Args.beatmap_path)
        /\ Get(result).pp_if_fc = PerformanceCalculate(FcPerformance, Args.beatmap_path)
        /\ Get(result).pp_if_ss = PerformanceCalculate(SsPerformance, Args.beatmap_path)

C21_Witness ==
  /\ C21Case
  /\ ~Args.lazer
  /\ misses > 0
  /\ mods_string = "HDDT"
  /\ Args.score.max_combo = None
  /\ Get(Get(result).pp_if_fc).performance.combo # None
  /\ Get(Get(result).pp).performance.combo = None

C22Case ==
  /\ fc # None
  /\ NonNegativeStatistics
  /\ PassedCount <= total_objects_for_mode
  /\ total_objects_for_mode - misses > 0

\* C22: for non-negative counts with great + ok + meh + miss <= total and
\* total - miss > 0 the redistributed counts add up to total_objects_for_mode
\* with no miss left, and between 0 and miss misses were turned into ok.
C22_RedistributionConservesObjects ==
  C22Case =>
    /\ Fc.raised = None
    /\ Fc.n300_fc + Fc.n100_fc + Fc.n50_fc = total_objects_for_mode
    /\ Fc.misses_fc = 0
    /\ Fc.new_100s # None
    /\ 0 <= Get(Fc.new_100s) /\ Get(Fc.new_100s) <= misses
    /\ Fc.n100_fc = n100 + Get(Fc.new_100s)
    /\ Fc.n300_fc = n300 + unseen_objects + (misses - Get(Fc.new_100s))

C22_Witness ==
  /\ C22Case
  /\ unseen_objects > 0
  /\ misses > 1
  /\ Get(Fc.new_100s) > 0
  /\ Get(Fc.new_100s) < misses

\* the request of handler h has been answered
Answered(h) == cb_pc[h] = "responded"

\* the state of the request was missing, unknown or already consumed
StateRejected(h) == cb[h].state = None \/ cb[h].discord_id = None

\* the token exchange was answered, with another status than 200 or with
\* no access token
ExchangeFailed(h) ==
  /\ cb[h].token # None
  /\ Get(cb[h].token).status # 200 \/ Get(cb[h].token).access_token = None

\* the profile request was answered with another status than 200
ProfileFailed(h) ==
  /\ cb[h].profile # None
  /\ Get(cb[h].profile).status # 200

ErrorStatuses == {400, 500}

\* C23: set_link is called at most once per issued state, and only by a
\* request whose state was found and consumed, whose token exchange was
\* answered 200 with an access token and whose profile request was answered
\* 200; a request with a missing, unknown or consumed state, a failed
\* exchange or a failed profile request is answered with an error status
\* without calling set_link; a request whose confirmation DM failed is
\* answered 200 as one whose DM was sent, and its user's link is in the table.
C23_CallbackIsSingleUse ==
  /\ \A t \in StateTokens :
       /\ set_link_calls[t] <= 1
       /\ set_link_calls[t] > 0 => t \in issued
  /\ \A h \in Handlers :
       /\ cb[h].set_link =>
            /\ cb[h].state # None /\ cb[h].discord_id # None
            /\ Get(cb[h].state) \in issued
            /\ \A e \in oauth_states : e.state # Get(cb[h].state)
            /\ cb[h].token = Some([status |-> 200, access_token |-> Some("token")])
            /\ cb[h].profile # None /\ Get(cb[h].profile).status = 200
       /\ Answered(h) /\ (StateRejected(h) \/ ExchangeFailed(h) \/ ProfileFailed(h)) =>
            /\ cb[h].response # None
            /\ Get(cb[h].response) \in ErrorStatuses
            /\ ~cb[h].set_link
       /\ Answered(h) /\ cb[h].dm # None =>
            /\ cb[h].response = Some(200)
            /\ cb[h].set_link
            /\ SelectLink(user_links, Get(cb[h].discord_id)) # None

\* one request was linked although its DM failed, and a second request with
\* the same state was then turned away
C23_Witness ==
  \E h1, h2 \in Handlers :
    /\ h1 # h2
    /\ Answered(h1) /\ cb[h1].dm = Some("failed")
    /\ set_link_calls[Get(cb[h1].state)] = 1
    /\ Answered(h2) /\ cb[h2].code # None
    /\ cb[h2].state = cb[h1].state
    /\ cb[h2].response = Some(400)

====
